---- MODULE Spec2Model ----
(***************************************************************************)
(* Model of evcxr/src/use_trees.rs: use_tree_names_do flattens one parsed  *)
(* `use` tree into Import records handed to a sink, through the recursive  *)
(* helper process_use_tree and the formatter Import::format.               *)
(*                                                                         *)
(* The recursion is modelled by the stack of pending process_use_tree      *)
(* invocations: each entry is the subtree it was called on (its position   *)
(* in the input tree) and the prefix slice it was handed.  One action is   *)
(* one invocation's body up to the point where it either returns or        *)
(* starts calling itself on its subtrees.                                  *)
(*                                                                         *)
(* A Rust String is modelled as the sequence of the pieces it is           *)
(* concatenated from: "use a::b as c;" is                                  *)
(* <<"use ", "a", "::", "b", " as ", "c", ";">>.                           *)
(***************************************************************************)
EXTENDS Naturals, Sequences, FiniteSets, TLC

\* use_tree: the tree use_tree_names_do was called on.
\* stack:    the pending process_use_tree invocations, innermost first, each
\*           [pos, prefix]: the subtree (by position) and the prefix slice.
\* out:      the Import records the sink has received, in order.
\* calls:    for each record of out, the arguments Import::format was given
\*           and the invocation (pos, prefix) that made the call.
\* status:   "ready", "running", "returned" or "panicked".
VARIABLES use_tree, stack, out, calls, status

vars == <<use_tree, stack, out, calls, status>>

\* Bounds of the input universe.
MaxNodes == 4
MaxPathLen == 3
MaxPrefixLen == 2

(***************************************************************************)
(* The syntax tree (ra_ap_syntax ast::UseTree and what hangs off it), as   *)
(* seen through the accessors the code calls.  Every accessor returns an   *)
(* Option, so every part may be absent.                                    *)
(***************************************************************************)

\* ast::PathSegment whose name_ref() is Some(text); kind() is Name.
NameSeg(t) == [present |-> TRUE, kind |-> "Name", has_name_ref |-> TRUE, text |-> t]

\* The segment `self`: kind() is SelfKw, a keyword token and no NameRef.
SelfSeg == [present |-> TRUE, kind |-> "SelfKw", has_name_ref |-> FALSE, text |-> "self"]

\* The segment `self` in a syntax tree whose `self` is a NameRef: kind() is
\* SelfKw and name_ref() is Some("self").
SelfRefSeg == [present |-> TRUE, kind |-> "SelfKw", has_name_ref |-> TRUE, text |-> "self"]

\* The segment `crate`: kind() is CrateKw, a keyword token and no NameRef.
CrateSeg == [present |-> TRUE, kind |-> "CrateKw", has_name_ref |-> FALSE, text |-> "crate"]

\* A ast::Path whose segment() is None.
NoSeg == [present |-> FALSE, kind |-> "None", has_name_ref |-> FALSE, text |-> ""]

\* ast::Rename as seen through name() and underscore_token().
NoRename == [present |-> FALSE, has_name |-> FALSE, has_underscore |-> FALSE, text |-> ""]

RenameTo(n) == [present |-> TRUE, has_name |-> TRUE, has_underscore |-> FALSE, text |-> n]

RenameUnderscore == [present |-> TRUE, has_name |-> FALSE, has_underscore |-> TRUE, text |-> "_"]

RenameEmpty == [present |-> TRUE, has_name |-> FALSE, has_underscore |-> FALSE, text |-> ""]

\* ast::UseTree: path() (segments in source order, the last one being
\* path.segment(), the ones before it the qualifier chain), use_tree_list(),
\* rename() and star_token().
UseTree(has_path, path, has_list, list, rename, star) ==
    [has_path |-> has_path, path |-> path, has_list |-> has_list, list |-> list,
     rename |-> rename, star |-> star]

\* A node without a use_tree_list.
Leaf(has_path, path, rename, star) == UseTree(has_path, path, FALSE, <<>>, rename, star)

\* A node with a use_tree_list and neither rename nor star.
Group(has_path, path, list) == UseTree(has_path, path, TRUE, list, NoRename, FALSE)

\* The subtree at a position: the sequence of child indices from the root.
RECURSIVE NodeAt(_, _)
NodeAt(t, pos) ==
    IF pos = <<>> THEN t ELSE NodeAt(t.list[Head(pos)], Tail(pos))

(***************************************************************************)
(* Import::format                                                          *)
(***************************************************************************)

\* path.join("::")
RECURSIVE JoinPath(_)
JoinPath(path) ==
    IF path = <<>> THEN <<>>
    ELSE IF Len(path) = 1 THEN <<path[1]>>
    ELSE <<path[1], "::">> \o JoinPath(Tail(path))

\* A mutant of Format: the rename form whatever the name.
FormatAlwaysAs(name, path) ==
    LET code == <<"use ">> \o JoinPath(path) \o <<" as ", name, ";">>
    IN  IF name = "_" \/ name = "*"
        THEN [tag |-> "Unnamed", code |-> code]
        ELSE [tag |-> "Named", name |-> name, code |-> code]

\* A mutant of Format: only `_` is classified as Unnamed.
FormatStarNamed(name, path) ==
    LET joined_path == JoinPath(path)
        code == IF path # <<>> /\ path[Len(path)] = name
                THEN <<"use ">> \o joined_path \o <<";">>
                ELSE <<"use ">> \o joined_path \o <<" as ", name, ";">>
    IN  IF name = "_"
        THEN [tag |-> "Unnamed", code |-> code]
        ELSE [tag |-> "Named", name |-> name, code |-> code]

Format(name, path) ==
    LET joined_path == JoinPath(path)
        code == IF path # <<>> /\ path[Len(path)] = name
                THEN <<"use ">> \o joined_path \o <<";">>
                ELSE <<"use ">> \o joined_path \o <<" as ", name, ";">>
    IN  IF name = "_" \/ name = "*"
        THEN [tag |-> "Unnamed", code |-> code]
        ELSE [tag |-> "Named", name |-> name, code |-> code]

(***************************************************************************)
(* process_use_tree                                                        *)
(***************************************************************************)

\* path.segment().and_then(|segment| segment.kind()) == Some(SelfKw)
IsSelfPath(path) ==
    path[Len(path)].present /\ path[Len(path)].kind = "SelfKw"

\* The loop collecting path_parts, from path.segment() through the qualifiers;
\* i is the segment `path` currently ends at.
RECURSIVE CollectParts(_, _, _)
CollectParts(path, i, path_parts) ==
    IF path[i].present
    THEN LET pushed == IF path[i].has_name_ref
                       THEN Append(path_parts, path[i].text)
                       ELSE path_parts
         IN  IF i > 1 THEN CollectParts(path, i - 1, pushed) ELSE pushed
    ELSE path_parts

\* Vec::reverse
Reverse(s) == [i \in 1..Len(s) |-> s[Len(s) + 1 - i]]

\* A mutant of PathParts: the collected parts are not reversed.
PathPartsNotReversed(path) == CollectParts(path, Len(path), <<>>)

\* path_parts after the loop and the reverse.
PathParts(path) == Reverse(CollectParts(path, Len(path), <<>>))

\* A mutant of NewPrefix: the incoming prefix is not copied in.
NewPrefixDropsPrefix(prefix, path_parts) == path_parts

\* new_prefix: the prefix followed by the path parts.
NewPrefix(prefix, path_parts) == prefix \o path_parts

\* A mutant of SubtreeCalls: the subtrees are visited last to first.
SubtreeCallsReversed(pos, n, new_prefix) ==
    [i \in 1..n |-> [pos |-> Append(pos, n + 1 - i), prefix |-> new_prefix]]

\* The calls of the loop over tree_list.use_trees(), in the order made.
SubtreeCalls(pos, n, new_prefix) ==
    [i \in 1..n |-> [pos |-> Append(pos, i), prefix |-> new_prefix]]

\* A mutant of SelfImports: the self branch never emits.
SelfImportsNone(prefix) == <<>>

\* A mutant of SelfImports: the self branch formats an empty prefix too.
SelfImportsAlways(prefix) == <<[name |-> "self", path |-> prefix]>>

\* The Import::format calls of the self branch: one when prefix.last() is
\* Some, none otherwise.
SelfImports(prefix) ==
    IF prefix # <<>>
    THEN <<[name |-> prefix[Len(prefix)], path |-> prefix]>>
    ELSE <<>>

\* The Import::format calls of the rename branch.
RenameImports(rename, new_prefix) ==
    IF rename.has_name THEN <<[name |-> rename.text, path |-> new_prefix]>>
    ELSE IF rename.has_underscore THEN <<[name |-> rename.text, path |-> new_prefix]>>
    ELSE <<>>

\* The invocation at the top of the stack, its subtree and its new_prefix.
top == Head(stack)

node == NodeAt(use_tree, top.pos)

new_prefix == NewPrefix(top.prefix, PathParts(node.path))

\* out(Import::format(name, path)) for each call of cs, made from the
\* invocation at the top of the stack, which then returns.
Emit(cs) ==
    /\ out' = out \o [i \in 1..Len(cs) |-> Format(cs[i].name, cs[i].path)]
    /\ calls' = calls \o [i \in 1..Len(cs) |->
                            [name |-> cs[i].name, path |-> cs[i].path,
                             pos |-> top.pos, prefix |-> top.prefix]]
    /\ stack' = Tail(stack)
    /\ UNCHANGED <<use_tree, status>>

Running == status = "running" /\ stack # <<>>

\* use_tree_names_do calls process_use_tree(use_tree, &[], out).
Start ==
    /\ status = "ready"
    /\ status' = "running"
    /\ stack' = <<[pos |-> <<>>, prefix |-> <<>>]>>
    /\ UNCHANGED <<use_tree, out, calls>>

\* use_tree.path() is None: nothing is done.
NoPath ==
    /\ Running
    /\ ~node.has_path
    /\ Emit(<<>>)

\* The path ends in `self`.
SelfPath ==
    /\ Running
    /\ node.has_path
    /\ IsSelfPath(node.path)
    /\ Emit(SelfImports(top.prefix))

\* use_tree.use_tree_list() is Some: recurse into every subtree.
RecurseList ==
    /\ Running
    /\ node.has_path
    /\ ~IsSelfPath(node.path)
    /\ node.has_list
    /\ stack' = SubtreeCalls(top.pos, Len(node.list), new_prefix) \o Tail(stack)
    /\ UNCHANGED <<use_tree, out, calls, status>>

\* use_tree.rename() is Some.
Rename ==
    /\ Running
    /\ node.has_path
    /\ ~IsSelfPath(node.path)
    /\ ~node.has_list
    /\ node.rename.present
    /\ Emit(RenameImports(node.rename, new_prefix))

\* use_tree.star_token() is Some.
Star ==
    /\ Running
    /\ node.has_path
    /\ ~IsSelfPath(node.path)
    /\ ~node.has_list
    /\ ~node.rename.present
    /\ node.star
    /\ Emit(<<[name |-> "*", path |-> Append(new_prefix, "*")]>>)

\* The last branch: new_prefix.last().unwrap() panics on an empty new_prefix,
\* and the panic unwinds every pending invocation.
PlainLeaf ==
    /\ Running
    /\ node.has_path
    /\ ~IsSelfPath(node.path)
    /\ ~node.has_list
    /\ ~node.rename.present
    /\ ~node.star
    /\ IF new_prefix = <<>>
       THEN /\ status' = "panicked"
            /\ stack' = <<>>
            /\ UNCHANGED <<use_tree, out, calls>>
       ELSE Emit(<<[name |-> new_prefix[Len(new_prefix)], path |-> new_prefix]>>)

\* The outermost process_use_tree has returned, and so does use_tree_names_do.
Return ==
    /\ status = "running"
    /\ stack = <<>>
    /\ status' = "returned"
    /\ UNCHANGED <<use_tree, stack, out, calls>>

(***************************************************************************)
(* The input trees.                                                        *)
(***************************************************************************)

\* Sequences over S of length 1..n.
SeqsUpTo(S, n) == UNION {[1..k -> S] : k \in 1..n}

\* Trees by shape: every tree of at most MaxNodes nodes over a small
\* alphabet of leaves and of group paths.
ShapeLeaves ==
    {Leaf(TRUE, <<NameSeg("a")>>, NoRename, FALSE),
     Leaf(TRUE, <<NameSeg("b")>>, RenameTo("c"), FALSE),
     Leaf(TRUE, <<NameSeg("a")>>, RenameUnderscore, FALSE),
     Leaf(TRUE, <<NameSeg("a")>>, NoRename, TRUE),
     Leaf(TRUE, <<SelfSeg>>, NoRename, FALSE),
     Leaf(TRUE, <<CrateSeg>>, NoRename, FALSE)}

ShapeGroupPaths ==
    {<<>>, <<NameSeg("a")>>, <<NameSeg("a"), NameSeg("b")>>, <<SelfSeg>>}

RECURSIVE TreesOfSize(_)
RECURSIVE ForestsOfSize(_)
ForestsOfSize(m) ==
    IF m = 0 THEN {<<>>}
    ELSE UNION {{<<t>> \o f : t \in TreesOfSize(k), f \in ForestsOfSize(m - k)} : k \in 1..m}

TreesOfSize(n) ==
    (IF n = 1 THEN ShapeLeaves ELSE {})
    \cup {Group(p # <<>>, p, f) : p \in ShapeGroupPaths, f \in ForestsOfSize(n - 1)}

\* Trees by path: one leaf with any path of at most MaxPathLen segments,
\* plain, renamed or with a star, alone or as the only subtree of a group whose path has at
\* most MaxPrefixLen named segments.
PathSegs == {NameSeg("p"), NameSeg("q"), SelfSeg, SelfRefSeg, CrateSeg, NoSeg}

PathRenames == {RenameTo("r"), RenameTo("q"), RenameUnderscore, RenameEmpty}

PathLeaves ==
    {Leaf(p # <<>>, p, NoRename, s) :
        p \in {<<>>} \cup SeqsUpTo(PathSegs, MaxPathLen), s \in BOOLEAN}
    \cup {Leaf(p # <<>>, p, r, FALSE) :
        p \in {<<>>} \cup SeqsUpTo(PathSegs, MaxPathLen), r \in PathRenames}

PathTrees ==
    PathLeaves
    \cup {Group(TRUE, p, <<l>>) :
            p \in SeqsUpTo({NameSeg("p"), NameSeg("q")}, MaxPrefixLen),
            l \in PathLeaves}

Init ==
    /\ \/ \E n \in 1..MaxNodes : use_tree \in TreesOfSize(n)
       \/ use_tree \in PathTrees
    /\ stack = <<>>
    /\ out = <<>>
    /\ calls = <<>>
    /\ status = "ready"

Next ==
    \/ Start
    \/ NoPath
    \/ SelfPath
    \/ RecurseList
    \/ Rename
    \/ Star
    \/ PlainLeaf
    \/ Return

Spec == Init /\ [][Next]_vars

(***************************************************************************)
(* Vocabulary of the properties.                                           *)
(***************************************************************************)

Last(s) == s[Len(s)]

Parent(pos) == SubSeq(pos, 1, Len(pos) - 1)

IsPrefixOf(p, s) == Len(p) <= Len(s) /\ SubSeq(s, 1, Len(p)) = p

EndsWith(s, e) == Len(e) <= Len(s) /\ SubSeq(s, Len(s) - Len(e) + 1, Len(s)) = e

\* Position p lies in the subtree of an earlier child than q does, under
\* their deepest common group.
Before(p, q) ==
    \E k \in 1..Len(p) :
        /\ k <= Len(q)
        /\ p[k] < q[k]
        /\ \A m \in 1..(k - 1) : p[m] = q[m]

\* P joined by "::", piece by piece.
Joined(P) ==
    IF P = <<>> THEN <<>>
    ELSE [i \in 1..(2 * Len(P) - 1) |-> IF i % 2 = 1 THEN P[(i + 1) \div 2] ELSE "::"]

\* The number of nodes without a nested group.
RECURSIVE NumLeaves(_)
RECURSIVE NumLeavesOfList(_)
NumLeavesOfList(list) ==
    IF list = <<>> THEN 0 ELSE NumLeaves(Head(list)) + NumLeavesOfList(Tail(list))

NumLeaves(t) == IF t.has_list THEN NumLeavesOfList(t.list) ELSE 1

\* The shapes of a node, as the branches of process_use_tree tell them apart.
SelfNode(nd) == nd.has_path /\ IsSelfPath(nd.path)

OtherNode(nd) == nd.has_path /\ ~IsSelfPath(nd.path)

RenameLeaf(nd) == OtherNode(nd) /\ ~nd.has_list /\ nd.rename.present

WildcardLeaf(nd) == OtherNode(nd) /\ ~nd.has_list /\ ~nd.rename.present /\ nd.star

PlainLeafNode(nd) == OtherNode(nd) /\ ~nd.has_list /\ ~nd.rename.present /\ ~nd.star

\* The named segments of a path in source order.
NamedSegments(path) ==
    LET named == SelectSeq(path, LAMBDA sg : sg.has_name_ref)
    IN  [i \in 1..Len(named) |-> named[i].text]

\* The prefix a group node hands to its subtrees: what its ancestors and
\* its own path contribute, root first.
RECURSIVE FullPrefix(_)
FullPrefix(pos) ==
    IF pos = <<>> THEN PathParts(use_tree.path)
    ELSE FullPrefix(Parent(pos)) \o PathParts(NodeAt(use_tree, pos).path)

Incoming(pos) == IF pos = <<>> THEN <<>> ELSE FullPrefix(Parent(pos))

UseSelfChain == Leaf(TRUE, <<NameSeg("p"), NameSeg("q"), SelfSeg>>, NoRename, FALSE)

UseGroupSelf ==
    Group(TRUE, <<NameSeg("a")>>, <<Leaf(TRUE, <<SelfSeg>>, NoRename, FALSE)>>)

(***************************************************************************)
(* Properties.                                                             *)
(***************************************************************************)

\* C1: when use_tree_names_do has returned, the number of Import records
\* emitted equals the number of leaves (nodes without a nested group) of the
\* input tree.
C1_OneRecordPerLeaf ==
    status = "returned" => Len(out) = NumLeaves(use_tree)

\* C2: the records reach the sink in depth-first, left-to-right order: of
\* any two records, the earlier one comes from the subtree of an earlier
\* child of their deepest common group.
C2_OrderPreserved ==
    /\ Len(calls) = Len(out)
    /\ \A i \in 1..Len(calls), j \in 1..Len(calls) :
          i < j => Before(calls[i].pos, calls[j].pos)

\* C2 happens: a record from inside a nested group came out ahead of the
\* record of a later sibling of that group.
C2_Witness ==
    /\ status = "returned"
    /\ \E i \in 1..Len(calls), j \in 1..Len(calls) :
          i < j /\ Len(calls[i].pos) = 2 /\ Len(calls[j].pos) = 1

\* C3: flattening `use p::q::self;` emits exactly one record,
\* Named q with code "use p::q;".
C3_SelfElision ==
    (use_tree = UseSelfChain /\ status = "returned") =>
        out = <<[tag |-> "Named", name |-> "q", code |-> <<"use ", "p", "::", "q", ";">>]>>

\* C4: use_tree_names_do never faults, whatever the tree.
C4_NeverFaults == status # "panicked"

\* C5 as stated: flattening `use a::{self};` emits no record.
C5_GroupSelfSkipped ==
    (use_tree = UseGroupSelf /\ status = "returned") => out = <<>>

\* C5 as amended: flattening `use a::{self};` emits exactly one record,
\* Named a with code "use a;".
C5_GroupSelfEmitted ==
    (use_tree = UseGroupSelf /\ status = "returned") =>
        out = <<[tag |-> "Named", name |-> "a", code |-> <<"use ", "a", ";">>]>>

\* C5 happens: `use a::{self};` has been flattened.
C5_Witness == use_tree = UseGroupSelf /\ status = "returned"

\* The two forms of the code of record i, by whether the bound name is the
\* last segment of the path handed to Import::format.
FormatForms(i) ==
    LET n == calls[i].name
        P == calls[i].path
        code == out[i].code
    IN  IF P # <<>> /\ n = Last(P)
        THEN /\ code = <<"use ">> \o Joined(P) \o <<";">>
             /\ \A k \in 1..Len(code) : code[k] # " as "
        ELSE code = <<"use ">> \o Joined(P) \o <<" as ", n, ";">>

C7_Classification ==
    \A i \in 1..Len(out) :
        LET nd == NodeAt(use_tree, calls[i].pos)
        IN  /\ out[i].tag \in {"Named", "Unnamed"}
            /\ out[i].tag = "Unnamed" <=> calls[i].name \in {"_", "*"}
            /\ out[i].tag = "Named" => out[i].name = calls[i].name
            /\ (RenameLeaf(nd) /\ ~nd.rename.has_name) => out[i].tag = "Unnamed"
            /\ WildcardLeaf(nd) => out[i].tag = "Unnamed"
            /\ (RenameLeaf(nd) /\ nd.rename.has_name) =>
                  (out[i].tag = "Named" /\ out[i].name = nd.rename.text)
            /\ PlainLeafNode(nd) => out[i].tag = "Named"

\* C7 happens: a rename to `_`, a wildcard leaf and a plain leaf have each
\* produced a record.
C7_Witness ==
    \E i \in 1..Len(out), j \in 1..Len(out), k \in 1..Len(out) :
        /\ calls[i].name = "_" /\ RenameLeaf(NodeAt(use_tree, calls[i].pos))
        /\ calls[j].name = "*" /\ WildcardLeaf(NodeAt(use_tree, calls[j].pos))
        /\ PlainLeafNode(NodeAt(use_tree, calls[k].pos))

\* C8: every pending invocation on a child of a group holds the group's
\* incoming prefix followed by the group's own segments, whatever its
\* siblings did; and every record's path is that prefix followed by what
\* the emitting node itself contributes, and nothing else.
C8_PrefixFrame ==
    /\ \A k \in 1..Len(stack) : stack[k].prefix = Incoming(stack[k].pos)
    /\ \A i \in 1..Len(calls) :
          LET nd == NodeAt(use_tree, calls[i].pos)
              own == IF SelfNode(nd) THEN <<>>
                     ELSE IF WildcardLeaf(nd) THEN PathParts(nd.path) \o <<"*">>
                     ELSE PathParts(nd.path)
          IN  /\ calls[i].prefix = Incoming(calls[i].pos)
              /\ IsPrefixOf(Incoming(calls[i].pos), calls[i].path)
              /\ calls[i].path = Incoming(calls[i].pos) \o own

\* C8 happens: a record has come out of a child of a group with a non-empty
\* prefix, after a wildcard sibling pushed its "*".
C8_Witness ==
    \E i \in 1..Len(calls), j \in 1..Len(calls) :
        /\ i < j
        /\ calls[i].name = "*"
        /\ calls[j].pos # <<>>
        /\ Parent(calls[i].pos) = Parent(calls[j].pos)
        /\ Incoming(calls[j].pos) # <<>>
        /\ calls[j].name # "*"

\* A plain leaf whose path has every segment present, does not end in `self`
\* and has at least one named segment.
PlainNamedLeaf(nd) ==
    /\ PlainLeafNode(nd)
    /\ \A k \in 1..Len(nd.path) : nd.path[k].present
    /\ NamedSegments(nd.path) # <<>>

C10_SelfTerminates ==
    [][(Running /\ node.has_path /\ Len(node.path) = 1 /\ IsSelfPath(node.path)) =>
         LET P == top.prefix
         IN  /\ status' = "running"
             /\ stack' = Tail(stack)
             /\ out' = IF P # <<>>
                       THEN Append(out, [tag |-> "Named", name |-> Last(P),
                                         code |-> <<"use ">> \o Joined(P) \o <<";">>])
                       ELSE out]_vars

\* C10 happens: a `self` node carrying a non-empty nested group was reached
\* with a non-empty prefix, produced its one record, and the call returned
\* with nothing emitted below it.
C10_Witness ==
    /\ status = "returned"
    /\ \E i \in 1..Len(calls) :
          LET nd == NodeAt(use_tree, calls[i].pos)
          IN  /\ nd.path = <<SelfSeg>>
              /\ nd.has_list
              /\ nd.list # <<>>
              /\ Len(calls) = 1

====
